---- MODULE Spec2Model ----
(***************************************************************************)
(* Model of scripts/CheckImageFiles.py: checkImages (the Coordinator),     *)
(* imageChecker.run (the workers), the multiprocessing JoinableQueue       *)
(* (Task Queue) and Queue (Result Channel) they share, and main.           *)
(***************************************************************************)
EXTENDS Integers, Sequences, FiniteSets, TLC

\* ------------------------------------------------------------------ bounds
MaxPaths == 2
CpuCount == 2
MaxRuns == 2

\* ------------------------------------------------------------ path strings
\* File names of the directory in ascending lexicographic order.
Names == <<"a.png", "b.png", "c.png", "d.png", "e.png", "f.png">>

CsvName == "Bad_Images.csv"

AllPaths == {Names[k] : k \in 1..MaxPaths}

\* Every entry a walk can come across.
Candidates == AllPaths \cup {CsvName}

\* Position of a name in lexicographic order (str.__lt__ on the path strings).
Rank(s) == IF s = CsvName THEN 0 ELSE CHOOSE k \in 1..Len(Names) : Names[k] = s

\* file[-4:]
Ext(f) == IF f = CsvName THEN ".csv" ELSE ".png"

\* What load_img can do with a file: return an image, return a false-like
\* value, or raise.
Outcomes == {"image", "falsy", "raise"}

\* The worker-count requests a caller makes (0 = unspecified).
Requests == (0 - 1)..(CpuCount + 1)

Workers == 1..CpuCount

VARIABLES
    files,        \* the .png files under top_dir
    load_img,     \* what load_img does with each of them
    csvExists,    \* whether top_dir/Bad_Images.csv exists
    csvData,      \* its content, a sequence of written pieces
    pc,           \* where the Coordinator (checkImages) is
    request,      \* the n_workers argument of the call
    n_workers,    \* checkImages' n_workers
    pngs,         \* checkImages' pngs
    nput,         \* how many of pngs the put loop has put
    img_buf,      \* img_queue: the putting process's feeder buffer
    img_pipe,     \* img_queue: the pipe the workers read
    unfinished,   \* img_queue._unfinished_tasks (the outstanding count)
    bad_buf,      \* bad_img_queue: each worker process's feeder buffer
    bad_pipe,     \* bad_img_queue: the pipe the Coordinator reads
    bad_size,     \* bad_img_queue.qsize()
    started,      \* how many workers the start loop has started
    wpc,          \* where each worker is in run()
    img_path,     \* each worker's img_path
    n_bad_imgs,   \* checkImages' n_bad_imgs
    bad_imgs,     \* checkImages' bad_imgs
    report,       \* the value checkImages returned
    wrote,        \* whether this run opened Bad_Images.csv for writing
    run,          \* which run of the script this is
    firstReport,  \* the report of the previous run
    deq,          \* history: how often each path was dequeued in this run
    ack           \* history: how often each path was acknowledged in this run

dirVars == <<files, load_img, csvExists, csvData>>
coVars == <<pc, request, n_workers, pngs, nput, n_bad_imgs, bad_imgs, report, wrote>>
imgQ == <<img_buf, img_pipe, unfinished>>
badQ == <<bad_buf, bad_pipe, bad_size>>
wVars == <<started, wpc, img_path>>
histVars == <<run, firstReport, deq, ack>>
vars == <<dirVars, coVars, imgQ, badQ, wVars, histVars>>

\* ---------------------------------------------------------- pure functions
Range(s) == {s[k] : k \in 1..Len(s)}

\* All orders in which os.walk can list a set of files.
Orders(S) == {s \in [1..Cardinality(S) -> S] : Range(s) = S}

RECURSIVE Insert(_, _)
Insert(x, s) ==
    IF s = <<>> THEN <<x>>
    ELSE IF Rank(x) < Rank(Head(s)) THEN <<x>> \o s
    ELSE <<Head(s)>> \o Insert(x, Tail(s))

\* sorted(s) and list.sort(): ascending lexicographic order, duplicates kept.
RECURSIVE sorted(_)
sorted(s) == IF s = <<>> THEN <<>> ELSE Insert(Head(s), sorted(Tail(s)))

\* sep.join(s), as the sequence of pieces written.
RECURSIVE join(_, _)
join(sep, s) ==
    IF s = <<>> THEN <<>>
    ELSE IF Len(s) = 1 THEN <<s[1]>>
    ELSE <<s[1], sep>> \o join(sep, Tail(s))

\* load_img(image_path): a path that is no image of the directory raises.
LoadImg(image_path) ==
    IF image_path \in DOMAIN load_img THEN load_img[image_path] ELSE "raise"

\* checkImageFile returning the truth value of what load_img returned.
checkImageFileTruthy(image_path) == LoadImg(image_path) = "image"

\* checkImageFile: True when load_img returns, whatever it returns; False
\* when it raises anything.
checkImageFile(image_path) == LoadImg(image_path) # "raise"

\* The entries os.walk lists under top_dir.
Listing == files \cup (IF csvExists THEN {CsvName} ELSE {})

\* A walk without the extension test.
KeepAll(S) == S

\* The entries the walk keeps.
KeepPng(S) == {f \in S : Ext(f) = ".png"}

\* The lines of a written file: the pieces between newlines.
RECURSIVE Lines(_)
Lines(data) ==
    IF data = <<>> THEN <<>>
    ELSE LET rest == Lines(Tail(data)) IN
         IF Head(data) = "\n" THEN <<<<>>>> \o rest
         ELSE IF rest = <<>> THEN <<<<Head(data)>>>>
         ELSE <<<<Head(data)>> \o Head(rest)>> \o Tail(rest)

\* Line 66 with the call parentheses of line 64: min(mp.cpu_count(), n).
WorkerCountCalled(n) ==
    IF n = 0 THEN [raises |-> FALSE, value |-> CpuCount]
    ELSE [raises |-> FALSE, value |-> IF n < CpuCount THEN n ELSE CpuCount]

\* n_workers after lines 63-66: cpu_count() when unspecified; otherwise
\* min(mp.cpu_count, n_workers) compares an int with a function object and
\* raises TypeError.
WorkerCount(n) ==
    IF n = 0 THEN [raises |-> FALSE, value |-> CpuCount]
    ELSE [raises |-> TRUE, value |-> n]

\* Waiting for the queue to be empty instead of for the tasks to be done.
JoinWhenEmpty(count) == img_buf = <<>> /\ img_pipe = <<>>

\* A join() that gives up waiting.
JoinTimeout(count) == TRUE

\* img_queue.join() returns when no task is unfinished.
JoinReturns(count) == count = 0

\* The queue state a worker's task_done() leaves.
AfterTaskDone(count) == count - 1

NoPath == ""

None == <<>>

\* ------------------------------------------------------------------- Init
Init ==
    /\ files \in SUBSET AllPaths
    /\ load_img \in [files -> Outcomes]
    /\ csvExists \in BOOLEAN
    /\ csvData = IF csvExists THEN <<"Path", "\n", Names[1]>> ELSE <<>>
    /\ pc = "call"
    /\ request = 0
    /\ n_workers = 0
    /\ pngs = <<>>
    /\ nput = 0
    /\ img_buf = <<>>
    /\ img_pipe = <<>>
    /\ unfinished = 0
    /\ bad_buf = [w \in Workers |-> <<>>]
    /\ bad_pipe = <<>>
    /\ bad_size = 0
    /\ started = 0
    /\ wpc = [w \in Workers |-> "new"]
    /\ img_path = [w \in Workers |-> NoPath]
    /\ n_bad_imgs = 0
    /\ bad_imgs = <<>>
    /\ report = None
    /\ wrote = FALSE
    /\ run = 1
    /\ firstReport = None
    /\ deq = [p \in Candidates |-> 0]
    /\ ack = [p \in Candidates |-> 0]

\* ------------------------------------------------------------ Coordinator
\* Where the Coordinator goes when the put loop is over.
AfterPuts(n) == IF n > 0 THEN "start" ELSE "join"

\* checkImages(top_dir, n): lines 63-66.
Call(n) ==
    /\ pc = "call"
    /\ LET wc == WorkerCount(n) IN
        /\ request' = n
        /\ n_workers' = wc.value
        /\ pc' = IF wc.raises THEN "error" ELSE "walk"
    /\ UNCHANGED <<dirVars, pngs, nput, n_bad_imgs, bad_imgs, report, wrote,
                   imgQ, badQ, wVars, histVars>>

\* The walk without pngs.sort().
WalkUnsorted ==
    /\ pc = "walk"
    /\ \E order \in Orders(KeepPng(Listing)) :
        /\ pngs' = order
        /\ pc' = IF pngs' = <<>> THEN AfterPuts(n_workers) ELSE "put"
    /\ UNCHANGED <<dirVars, request, n_workers, nput, n_bad_imgs, bad_imgs, report, wrote,
                   imgQ, badQ, wVars, histVars>>

\* Lines 70-75: the walk in whatever order the file system lists, then sort.
Walk ==
    /\ pc = "walk"
    /\ \E order \in Orders(KeepPng(Listing)) :
        /\ pngs' = sorted(order)
        /\ pc' = IF pngs' = <<>> THEN AfterPuts(n_workers) ELSE "put"
    /\ UNCHANGED <<dirVars, request, n_workers, nput, n_bad_imgs, bad_imgs, report, wrote,
                   imgQ, badQ, wVars, histVars>>

\* Lines 81-82: img_queue.put(i).
Put ==
    /\ pc = "put"
    /\ nput < Len(pngs)
    /\ img_buf' = Append(img_buf, pngs[nput + 1])
    /\ unfinished' = unfinished + 1
    /\ nput' = nput + 1
    /\ pc' = IF nput' = Len(pngs) THEN AfterPuts(n_workers) ELSE "put"
    /\ UNCHANGED <<dirVars, request, n_workers, pngs, n_bad_imgs, bad_imgs, report, wrote,
                   img_pipe, badQ, wVars, histVars>>

\* img_queue's feeder thread: buffer to pipe, in order.
FeedImg ==
    /\ img_buf # <<>>
    /\ img_pipe' = Append(img_pipe, Head(img_buf))
    /\ img_buf' = Tail(img_buf)
    /\ UNCHANGED <<dirVars, coVars, unfinished, badQ, wVars, histVars>>

\* The start loop running before the put loop is over.
StartWorkerEarly ==
    /\ pc \in {"put", "start"}
    /\ started < n_workers
    /\ started' = started + 1
    /\ wpc' = [wpc EXCEPT ![started + 1] = "get"]
    /\ pc' = IF pc = "put" THEN "put"
             ELSE IF started' = n_workers THEN "join" ELSE "start"
    /\ UNCHANGED <<dirVars, request, n_workers, pngs, nput, n_bad_imgs, bad_imgs, report,
                   wrote, imgQ, badQ, img_path, histVars>>

\* Lines 84-87: create and start one worker.
StartWorker ==
    /\ pc = "start"
    /\ started < n_workers
    /\ started' = started + 1
    /\ wpc' = [wpc EXCEPT ![started + 1] = "get"]
    /\ pc' = IF started' = n_workers THEN "join" ELSE "start"
    /\ UNCHANGED <<dirVars, request, n_workers, pngs, nput, n_bad_imgs, bad_imgs, report,
                   wrote, imgQ, badQ, img_path, histVars>>

\* The Coordinator going on without waiting in join().
JoinNoWait ==
    /\ pc = "join"
    /\ pc' = "qsize"
    /\ UNCHANGED <<dirVars, request, n_workers, pngs, nput, n_bad_imgs, bad_imgs, report,
                   wrote, imgQ, badQ, wVars, histVars>>

\* Line 89: img_queue.join().
Join ==
    /\ pc = "join"
    /\ JoinReturns(unfinished)
    /\ pc' = "qsize"
    /\ UNCHANGED <<dirVars, request, n_workers, pngs, nput, n_bad_imgs, bad_imgs, report,
                   wrote, imgQ, badQ, wVars, histVars>>

\* Lines 93-96 and 103-104.
Qsize ==
    /\ pc = "qsize"
    /\ n_bad_imgs' = bad_size
    /\ bad_imgs' = <<>>
    /\ pc' = IF n_bad_imgs' > 0 THEN "drain" ELSE "return"
    /\ UNCHANGED <<dirVars, request, n_workers, pngs, nput, report, wrote,
                   imgQ, badQ, wVars, histVars>>

\* Lines 98-99: one turn of the drain loop; get() waits for the pipe.
Drain ==
    /\ pc = "drain"
    /\ bad_size > 0
    /\ bad_pipe # <<>>
    /\ bad_imgs' = Append(bad_imgs, Head(bad_pipe))
    /\ bad_pipe' = Tail(bad_pipe)
    /\ bad_size' = bad_size - 1
    /\ UNCHANGED <<dirVars, pc, request, n_workers, pngs, nput, n_bad_imgs, report, wrote,
                   imgQ, bad_buf, wVars, histVars>>

\* The drain loop ended by empty() instead of qsize().
WriteCsvWhenEmpty ==
    /\ pc = "drain"
    /\ bad_pipe = <<>>
    /\ csvExists' = TRUE
    /\ csvData' = <<"Path", "\n">> \o join("\n", sorted(bad_imgs))
    /\ wrote' = TRUE
    /\ pc' = "return"
    /\ UNCHANGED <<files, load_img, request, n_workers, pngs, nput, n_bad_imgs,
                   bad_imgs, report, imgQ, badQ, wVars, histVars>>

\* The file written in the order the records were drained.
WriteCsvUnsorted ==
    /\ pc = "drain"
    /\ bad_size = 0
    /\ csvExists' = TRUE
    /\ csvData' = <<"Path", "\n">> \o join("\n", bad_imgs)
    /\ wrote' = TRUE
    /\ pc' = "return"
    /\ UNCHANGED <<files, load_img, request, n_workers, pngs, nput, n_bad_imgs,
                   bad_imgs, report, imgQ, badQ, wVars, histVars>>

\* Lines 100-102: the drain loop is over; write Bad_Images.csv.
WriteCsv ==
    /\ pc = "drain"
    /\ bad_size = 0
    /\ csvExists' = TRUE
    /\ csvData' = <<"Path", "\n">> \o join("\n", sorted(bad_imgs))
    /\ wrote' = TRUE
    /\ pc' = "return"
    /\ UNCHANGED <<files, load_img, request, n_workers, pngs, nput, n_bad_imgs, bad_imgs,
                   report, imgQ, badQ, wVars, histVars>>

\* Returning the records in the order they were drained.
ReturnUnsorted ==
    /\ pc = "return"
    /\ report' = bad_imgs
    /\ pc' = "done"
    /\ UNCHANGED <<dirVars, request, n_workers, pngs, nput, n_bad_imgs, bad_imgs,
                   wrote, imgQ, badQ, wVars, histVars>>

\* Line 106.
Return ==
    /\ pc = "return"
    /\ report' = sorted(bad_imgs)
    /\ pc' = "done"
    /\ UNCHANGED <<dirVars, request, n_workers, pngs, nput, n_bad_imgs, bad_imgs, wrote,
                   imgQ, badQ, wVars, histVars>>

\* The script is run again on the directory as the last run left it; the
\* daemon workers of the last run ended with its process.
Rerun ==
    /\ pc = "done"
    /\ run < MaxRuns
    /\ run' = run + 1
    /\ firstReport' = report
    /\ pc' = "call"
    /\ request' = 0
    /\ n_workers' = 0
    /\ pngs' = <<>>
    /\ nput' = 0
    /\ img_buf' = <<>>
    /\ img_pipe' = <<>>
    /\ unfinished' = 0
    /\ bad_buf' = [w \in Workers |-> <<>>]
    /\ bad_pipe' = <<>>
    /\ bad_size' = 0
    /\ started' = 0
    /\ wpc' = [w \in Workers |-> "new"]
    /\ img_path' = [w \in Workers |-> NoPath]
    /\ n_bad_imgs' = 0
    /\ bad_imgs' = <<>>
    /\ report' = None
    /\ wrote' = FALSE
    /\ deq' = [p \in Candidates |-> 0]
    /\ ack' = [p \in Candidates |-> 0]
    /\ UNCHANGED dirVars

\* ---------------------------------------------------------------- Workers
\* Line 44: img_path = self.in_queue.get().
Get(w) ==
    /\ wpc[w] = "get"
    /\ img_pipe # <<>>
    /\ img_path' = [img_path EXCEPT ![w] = Head(img_pipe)]
    /\ img_pipe' = Tail(img_pipe)
    /\ deq' = [deq EXCEPT ![Head(img_pipe)] = @ + 1]
    /\ wpc' = [wpc EXCEPT ![w] = "check"]
    /\ UNCHANGED <<dirVars, coVars, img_buf, unfinished, badQ, started,
                   run, firstReport, ack>>

\* task_done() indented under the if: a file that loads is never acknowledged.
CheckSkipAck(w) ==
    /\ wpc[w] = "check"
    /\ wpc' = [wpc EXCEPT ![w] = IF checkImageFile(img_path[w]) THEN "get" ELSE "put"]
    /\ UNCHANGED <<dirVars, coVars, imgQ, badQ, started, img_path, histVars>>

\* checkImageFile without its try/except: what load_img raises ends run().
CheckCrash(w) ==
    /\ wpc[w] = "check"
    /\ wpc' = [wpc EXCEPT ![w] =
                IF LoadImg(img_path[w]) = "raise" THEN "dead" ELSE "ack"]
    /\ UNCHANGED <<dirVars, coVars, imgQ, badQ, started, img_path, histVars>>

\* Lines 45-46: img_loads = checkImageFile(img_path) and the branch on it.
Check(w) ==
    /\ wpc[w] = "check"
    /\ wpc' = [wpc EXCEPT ![w] = IF checkImageFile(img_path[w]) THEN "ack" ELSE "put"]
    /\ UNCHANGED <<dirVars, coVars, imgQ, badQ, started, img_path, histVars>>

\* A second task_done() inside the if.
PutBadAck(w) ==
    /\ wpc[w] = "put"
    /\ bad_buf' = [bad_buf EXCEPT ![w] = Append(@, img_path[w])]
    /\ bad_size' = bad_size + 1
    /\ unfinished' = AfterTaskDone(unfinished)
    /\ ack' = [ack EXCEPT ![img_path[w]] = @ + 1]
    /\ wpc' = [wpc EXCEPT ![w] = "ack"]
    /\ UNCHANGED <<dirVars, coVars, img_buf, img_pipe, bad_pipe, started, img_path,
                   run, firstReport, deq>>

\* task_done() before bad_queue.put(): the failed item is acknowledged first
\* and its record is put afterwards.
PutBadAfterAck(w) ==
    \/ /\ wpc[w] = "put"
       /\ unfinished' = AfterTaskDone(unfinished)
       /\ ack' = [ack EXCEPT ![img_path[w]] = @ + 1]
       /\ wpc' = [wpc EXCEPT ![w] = "late"]
       /\ UNCHANGED <<dirVars, coVars, img_buf, img_pipe, badQ, started, img_path,
                      run, firstReport, deq>>
    \/ /\ wpc[w] = "late"
       /\ bad_buf' = [bad_buf EXCEPT ![w] = Append(@, img_path[w])]
       /\ bad_size' = bad_size + 1
       /\ img_path' = [img_path EXCEPT ![w] = NoPath]
       /\ wpc' = [wpc EXCEPT ![w] = "get"]
       /\ UNCHANGED <<dirVars, coVars, imgQ, bad_pipe, started, histVars>>

\* Line 47: self.bad_queue.put(img_path).
PutBad(w) ==
    /\ wpc[w] = "put"
    /\ bad_buf' = [bad_buf EXCEPT ![w] = Append(@, img_path[w])]
    /\ bad_size' = bad_size + 1
    /\ wpc' = [wpc EXCEPT ![w] = "ack"]
    /\ UNCHANGED <<dirVars, coVars, imgQ, bad_pipe, started, img_path, histVars>>

\* bad_img_queue's feeder thread in worker w's process.
FeedBad(w) ==
    /\ bad_buf[w] # <<>>
    /\ bad_pipe' = Append(bad_pipe, Head(bad_buf[w]))
    /\ bad_buf' = [bad_buf EXCEPT ![w] = Tail(@)]
    /\ UNCHANGED <<dirVars, coVars, imgQ, bad_size, wVars, histVars>>

\* Line 48: self.in_queue.task_done(), and back to the top of the loop.
TaskDone(w) ==
    /\ wpc[w] = "ack"
    /\ unfinished' = AfterTaskDone(unfinished)
    /\ ack' = [ack EXCEPT ![img_path[w]] = @ + 1]
    /\ img_path' = [img_path EXCEPT ![w] = NoPath]
    /\ wpc' = [wpc EXCEPT ![w] = "get"]
    /\ UNCHANGED <<dirVars, coVars, img_buf, img_pipe, badQ, started,
                   run, firstReport, deq>>

\* ------------------------------------------------------------ specification
Coordinator ==
    \/ \E n \in Requests : Call(n)
    \/ Walk
    \/ Put
    \/ StartWorker
    \/ Join
    \/ Qsize
    \/ Drain
    \/ WriteCsv
    \/ Return

Worker(w) ==
    \/ Get(w)
    \/ Check(w)
    \/ PutBad(w)
    \/ TaskDone(w)

\* One run of the script.
OneRun ==
    \/ Coordinator
    \/ FeedImg
    \/ \E w \in Workers : Worker(w)
    \/ \E w \in Workers : FeedBad(w)

Next ==
    \/ OneRun
    \/ Rerun

Spec == Init /\ [][Next]_vars

\* Worker w's process stops (it crashes or is killed) between its get() and
\* its task_done().
Crash(w) ==
    /\ wpc[w] \in {"check", "put", "ack"}
    /\ wpc' = [wpc EXCEPT ![w] = "dead"]
    /\ UNCHANGED <<dirVars, coVars, imgQ, badQ, started, img_path, histVars>>

CrashNext ==
    \/ OneRun
    \/ \E w \in Workers : Crash(w)

\* One run in which workers may stop while they hold an item.
CrashSpec == Init /\ [][CrashNext]_vars

\* The operating system schedules every process and feeder thread, and a
\* decode call that terminates lets its worker go on: while some process of
\* the run can take a step, a step is eventually taken.
Fairness == WF_vars(OneRun)

\* One run under fair scheduling.
LiveSpec == Init /\ [][OneRun]_vars /\ Fairness

\* ------------------------------------------------------------------ claims
\* The paths put into img_queue so far.
Enqueued == {pngs[k] : k \in 1..nput}

\* The files whose check the worker counts as failed.
Failed == {p \in files : ~checkImageFile(p)}

\* join() has returned in this run.
Joined == pc \in {"qsize", "drain", "return", "done"}

Idle(w) == wpc[w] \in {"new", "get"}

C2_EveryItemAcknowledged ==
    /\ \A p \in AllPaths :
        (started >= 1 /\ p \in Enqueued) ~> (deq[p] = 1 /\ ack[p] = 1)
    /\ (started >= 1) ~> (pc = "done")

\* A run has returned in which load_img raised for one file and returned for
\* another, and both were acknowledged.
C2_Witness ==
    /\ pc = "done"
    /\ \E p, q \in files : load_img[p] = "raise" /\ load_img[q] # "raise"
    /\ \A p \in files : ack[p] = 1

\* C3: no path is dequeued twice, acknowledged twice or held by two workers,
\* and once join() has returned every enqueued path has been dequeued and
\* acknowledged exactly once, so that the acknowledgments are as many as the
\* enqueued items.
C3_ExactlyOnce ==
    /\ \A p \in Candidates :
        /\ deq[p] <= 1
        /\ ack[p] <= deq[p]
        /\ Cardinality({w \in Workers : img_path[w] = p}) <= 1
        /\ p \notin Enqueued => deq[p] = 0
    /\ Joined =>
        /\ nput = Len(pngs)
        /\ \A p \in Candidates :
            ack[p] = (IF p \in Enqueued THEN 1 ELSE 0)

\* join() has returned after two workers shared the paths.
C3_Witness ==
    /\ pc = "qsize"
    /\ nput >= 2
    /\ started >= 2
    /\ \A p \in files : ack[p] = 1

\* C4: the returned report is in strictly ascending lexicographic order, so
\* it is sorted and holds no path twice, in whatever order the records were
\* drained.
C4_ReportSorted ==
    pc = "done" =>
        \A j, k \in 1..Len(report) : j < k => Rank(report[j]) < Rank(report[k])

\* A report of two or more paths whose records were drained in another order.
C4_Witness ==
    /\ pc = "done"
    /\ Len(report) >= 2
    /\ bad_imgs # report

\* C5: a run on the directory an earlier complete run left returns the
\* report that run returned, whatever the interleavings of the two runs.
C5_SameReportAgain ==
    (run >= 2 /\ pc = "done") => report = firstReport

\* The second run has returned two or more paths it had drained out of order.
C5_Witness ==
    /\ run = 2
    /\ pc = "done"
    /\ Len(report) >= 2
    /\ bad_imgs # report

\* C6, as stated: a call with n_workers = 1 does not fail, and it returns
\* the sorted failures of all files, as a run with several workers does.
C6_OneWorkerSameReport ==
    request = 1 =>
        /\ pc # "error"
        /\ pc = "done" => (Range(report) = Failed /\ Len(report) = Cardinality(Failed))

\* C7, as stated: a negative worker count, or one above the number of
\* execution units, does not fail the call and leaves a count of at least 1.
C7_InvalidCountClamped ==
    (pc # "call" /\ (request < 0 \/ request > CpuCount)) =>
        /\ pc # "error"
        /\ n_workers >= 1
        /\ n_workers <= CpuCount

C9_NoFiles ==
    /\ [](files = {} =>
            /\ \A p \in Candidates : deq[p] = 0 /\ ack[p] = 0
            /\ \A w \in Workers : Idle(w)
            /\ pc = "done" => report = <<>>)
    /\ (files = {} /\ pc = "walk") ~> (pc = "done" /\ report = <<>>)

\* The run on an empty directory has returned with all workers started and
\* waiting in get().
C9_Witness ==
    /\ files = {}
    /\ pc = "done"
    /\ started = CpuCount
    /\ \A w \in Workers : wpc[w] = "get"

\* C10: the outstanding count is never negative, and once join() has
\* returned it is zero, nothing is queued and no worker holds an item.
C10_JoinAtZero ==
    /\ unfinished >= 0
    /\ Joined =>
        /\ unfinished = 0
        /\ img_buf = <<>>
        /\ img_pipe = <<>>
        /\ \A w \in Workers : Idle(w) /\ img_path[w] = NoPath

\* join() has returned after the count had been raised to two or more.
C10_Witness ==
    /\ pc = "qsize"
    /\ nput >= 2
    /\ unfinished = 0
    /\ started >= 2

\* C11: whenever some worker has been started, and whenever the Coordinator
\* is in join() or past it, every path of pngs has been put; so the count
\* join() sees is zero only when no path remains to be submitted.
C11_PutsBeforeWorkers ==
    (started >= 1 \/ pc = "join" \/ Joined) =>
        /\ nput = Len(pngs)
        /\ Range(pngs) = KeepPng(Listing)
        /\ pc \notin {"call", "walk", "put"}

\* The first worker has just been started with two paths put and none
\* acknowledged.
C11_Witness ==
    /\ pc = "start"
    /\ started = 1
    /\ nput >= 2
    /\ unfinished = nput

\* The records put into bad_img_queue and not yet taken out of it.
InChannel ==
    UNION {Range(bad_buf[w]) : w \in Workers} \cup Range(bad_pipe)

\* C12: the Coordinator has read nothing of the Result Channel before join()
\* has returned; from then on no worker is between get() and task_done(), so
\* no put() meets the drain; and every record counted by qsize() is taken
\* exactly once.
C12_DrainAfterJoin ==
    /\ ~Joined => (n_bad_imgs = 0 /\ bad_imgs = <<>>)
    /\ Joined => \A w \in Workers : Idle(w)
    /\ pc \in {"drain", "return", "done"} =>
        /\ Len(bad_imgs) + bad_size = n_bad_imgs
        /\ Cardinality(Range(bad_imgs)) = Len(bad_imgs)
        /\ Range(bad_imgs) \cap InChannel = {}
    /\ pc \in {"return", "done"} => bad_size = 0

\* The drain is under way: one record is taken, another is still in the
\* feeder buffer of its worker.
C12_Witness ==
    /\ pc = "drain"
    /\ Len(bad_imgs) = 1
    /\ \E w \in Workers : bad_buf[w] # <<>>

\* C13: within a run, a worker leaves IDLE only by taking the head of the
\* queue, which it then holds; it returns to IDLE only by acknowledging the
\* item it holds; it holds an item exactly while it is BUSY; and once started
\* it is always at one of the four places of its loop, never ended.
C13_TwoStateWorker ==
    [][run' = run =>
        \A w \in Workers :
            /\ (Idle(w) /\ ~Idle(w)') =>
                /\ wpc[w] = "get"
                /\ wpc'[w] = "check"
                /\ img_pipe # <<>>
                /\ img_path'[w] = Head(img_pipe)
                /\ img_pipe' = Tail(img_pipe)
                /\ deq'[img_path'[w]] = deq[img_path'[w]] + 1
            /\ (~Idle(w) /\ Idle(w)') =>
                /\ wpc[w] = "ack"
                /\ wpc'[w] = "get"
                /\ ack'[img_path[w]] = ack[img_path[w]] + 1
                /\ unfinished' = unfinished - 1
            /\ (~Idle(w) /\ ~Idle(w)') => img_path'[w] = img_path[w]
            /\ Idle(w)' <=> img_path'[w] = NoPath
            /\ wpc[w] # "new" => wpc'[w] \in {"get", "check", "put", "ack"}
    ]_vars

\* checkImages has returned; a worker that has acknowledged a file whose
\* load raised waits in get() on the empty queue.
C13_Witness ==
    /\ pc = "done"
    /\ img_buf = <<>>
    /\ img_pipe = <<>>
    /\ \E p \in files : load_img[p] = "raise" /\ ack[p] = 1
    /\ \A w \in Workers : wpc[w] = "get"

\* C14, as stated: once the start loop is over or the call has failed, the
\* workers started are as many as the execution units when n_workers was
\* left at 0 and as many as the caller asked for otherwise; and none is
\* started once join() is called.
C14_PoolSize ==
    /\ (pc \in {"error", "join"} \/ Joined) =>
        /\ request = 0 => started = CpuCount
        /\ request >= 1 => started = request
    /\ (pc = "join" \/ Joined) =>
        \A w \in Workers : (w <= started) <=> (wpc[w] # "new")

\* A worker has stopped while holding an item.
Stopped(w) == wpc[w] = "dead"

\* C15: once a worker has stopped between its get() and its task_done(), it
\* stays stopped, the outstanding count stays above zero and the Coordinator
\* never gets past join(), whatever the other workers do.
C15_StoppedWorkerStallsJoin ==
    /\ []((\E w \in Workers : Stopped(w)) =>
            /\ unfinished >= 1
            /\ pc \in {"start", "join"}
            /\ report = None
            /\ ~wrote)
    /\ [][\A w \in Workers : Stopped(w) => Stopped(w)']_vars

\* One worker has stopped with its item; the other has done all the rest and
\* waits in get(); the Coordinator is in join() with one task unfinished.
C15_Witness ==
    /\ pc = "join"
    /\ nput >= 2
    /\ unfinished = 1
    /\ img_buf = <<>>
    /\ img_pipe = <<>>
    /\ \E w, v \in Workers : Stopped(w) /\ wpc[v] = "get"

\* The failure records put so far in this run: those still in bad_img_queue
\* and those the Coordinator has taken.
Records == InChannel \cup Range(bad_imgs)

\* The acknowledged paths whose check failed.
AckedFailed == {p \in Candidates : ack[p] >= 1 /\ ~checkImageFile(p)}

C17_DequeueInSortedOrder ==
    [][\A q \in Candidates :
        deq'[q] > deq[q] =>
            \A p \in KeepPng(Listing) : Rank(p) < Rank(q) => deq[p] >= 1
    ]_vars

\* Both paths are dequeued, in sorted order, and the later one is
\* acknowledged first.
C17_Witness ==
    /\ \E p, q \in files :
        /\ Rank(p) < Rank(q)
        /\ deq[p] = 1
        /\ ack[p] = 0
        /\ ack[q] = 1

====
